---- MODULE Spec2Model ----
(***************************************************************************)
(* Model of the Jumia review scraper (src/src/scraper.py): the top-level   *)
(* restart loop run_scraper, the browser session lifecycle (_init_browser, *)
(* shutdown), the retry wrapper _session_guard, product discovery, the     *)
(* review pagination loop of extract_reviews and the per-category export.  *)
(*                                                                         *)
(* The remote site and the automation channel are the environment: the     *)
(* number of product cards of a listing, the number of review pages of a   *)
(* product, a browser that dies, an engine that does not start, a wait     *)
(* that times out, a click that is intercepted, a page change that is      *)
(* slower than the settle delay, a write that fails, a process that is     *)
(* killed.                                                                 *)
(***************************************************************************)
EXTENDS Integers, Sequences, FiniteSets, TLC

VARIABLES
  pc,        \* control location of run_scraper and of the call it is in
  restarts,  \* completed iterations of the restart loop (history)
  faults,    \* environment failures injected so far (history)
  exc,       \* exception that reached the handler of run_scraper, or "none"
  browser,   \* self.browser: 0 is None, else the handle of a session
  live,      \* handles whose browser process is running
  shown,     \* what the current browser displays
  page,      \* review page index displayed (0 when not on a review page)
  results,   \* self.results, the record buffer
  files,     \* durable file of each category
  committed, \* last completely written content of each file (history)
  cat,       \* index of the category being processed
  links,     \* product links returned by discover_products
  i,         \* enumerate index of the product being processed (0-based)
  attempt,   \* _session_guard: 0 in the first call of func, 1 in the retry
  runs,      \* _session_guard: calls of func made by the current guard call
  fails,     \* _session_guard: InvalidSessionIdException raised in the call
  reinits,   \* _session_guard: browsers started by the call (line 132)
  ret,       \* _session_guard: "pending" inside the call, else its outcome
  mark,      \* length of the buffer when extract_reviews was called (history)
  oploss,    \* sessions lost during the current extract_reviews call (history)
  opfault,   \* another failure was injected since that call began (history)
  threads,   \* site: number of review pages of each product (0: no reviews link)
  perPage,   \* site: review containers on each review page
  rev,       \* a review container handed to the record parser
  emitted,   \* the record the parser built from rev (<<>>: none yet)
  raw,       \* preprocessor: the merged frame as loaded (history)
  df,        \* preprocessor: self.df, rows with their index labels
  lenient    \* preprocessor: the date parser in use retries month-first

vars == <<pc, restarts, faults, exc, browser, live, shown, page, results,
          files, committed, cat, links, i, attempt, runs, fails, reinits, ret, mark,
          oploss, opfault, threads, perPage, rev, emitted, raw, df, lenient>>

guard == <<attempt, runs, fails, reinits, ret>>
sess  == <<browser, live, shown, page>>
store == <<files, committed>>
orch  == <<cat, links, i>>
site  == <<threads, perPage>>
frame == <<raw, df, lenient>>
parse == <<rev, emitted, frame>>
call  == <<mark, oploss, opfault>>

----------------------------------------------------------------------------
(* Bounds of the model *)
MaxProducts == 2
MaxPages    == 3
MaxPerPage  == 1
MaxFaults   == 2
MaxRestarts == 1
BulkPerPage == 9
NumCategories == 2   \* TARGET_CATEGORIES is user configuration (lines 308-317)

(* Program constants *)
RefreshEvery  == 20

Categories == 1..NumCategories
Urls       == 1..MaxProducts
SessionIds == 1..(MaxRestarts + 3)

Absent == [exists |-> FALSE, rows |-> <<>>]
File(rows) == [exists |-> TRUE, rows |-> rows]

----------------------------------------------------------------------------
(* Session lifecycle *)

\* a handle not in use: neither a running browser nor the handle held
FreshSid == CHOOSE s \in SessionIds : s \notin live /\ s # browser

\* _init_browser, lines 62-66: quit the browser the object holds (b = 0 is
\* None: nothing to quit); an error of quit is swallowed
QuitOld(b) == live \ {b}

\* _init_browser succeeding (lines 60-113) on an object whose browser is b
InitBrowserOk(b) ==
  /\ live' = QuitOld(b) \cup {FreshSid}
  /\ browser' = FreshSid
  /\ shown' = "blank"
  /\ page' = 0

\* _init_browser failing to start the engine (lines 99, 115-117): the old
\* browser was quit already, the handle is kept, WebDriverException is
\* logged and raised again
InitBrowserFail(b) ==
  /\ faults < MaxFaults
  /\ faults' = faults + 1
  /\ live' = QuitOld(b)
  /\ UNCHANGED <<browser, shown, page>>

----------------------------------------------------------------------------
(* _session_guard *)

InGuard == ret = "pending"
Att   == IF InGuard THEN attempt ELSE 0
Runs  == IF InGuard THEN runs ELSE 1
Fails == IF InGuard THEN fails ELSE 0
Reinits == IF InGuard THEN reinits ELSE 0

\* variant: the retry is itself retried once more
GuardRetriesTwice(att) == att <= 1

\* line 128-130: the handler that re-initialises covers the first call only
GuardRetries(att) == att = 0

\* variant: the retry runs outside any try
RetryNeverCaught(att) == FALSE

\* lines 133-137: the retry runs inside try/except Exception
RetryCaught(att) == att >= 1

SetGuard(a, r, f, n, v) ==
  /\ attempt' = a
  /\ runs' = r
  /\ fails' = f
  /\ reinits' = n
  /\ ret' = v

GuardContinue == SetGuard(Att, Runs, Fails, Reinits, "pending")
GuardReturn(v) == SetGuard(Att, Runs, Fails, Reinits, v)

\* an exception leaves the guard and reaches the handler of run_scraper
Propagate(e) ==
  /\ pc' = "except"
  /\ exc' = e

\* variant: the guard retries without re-initialising the browser
SessionLostNoReinit(start, after) ==
  IF GuardRetries(Att)
  THEN /\ pc' = start
       /\ SetGuard(Att + 1, Runs + 1, Fails + 1, Reinits, "pending")
       /\ UNCHANGED <<sess, exc, faults>>
  ELSE /\ UNCHANGED <<sess, faults>>
       /\ SetGuard(Att, Runs, Fails + 1, Reinits, IF RetryCaught(Att) THEN "None" ELSE "raised")
       /\ IF RetryCaught(Att)
          THEN pc' = after /\ UNCHANGED exc
          ELSE Propagate("InvalidSessionIdException")

\* func raised InvalidSessionIdException at a step of the guarded call whose
\* first step is `start`; `after` is where the caller goes on when the guard
\* returns
SessionLost(start, after) ==
  IF GuardRetries(Att)
  THEN \/ /\ InitBrowserOk(browser)
          /\ pc' = start
          /\ SetGuard(Att + 1, Runs + 1, Fails + 1, Reinits + 1, "pending")
          /\ UNCHANGED <<exc, faults>>
       \/ /\ InitBrowserFail(browser)
          /\ Propagate("BrowserInitError")
          /\ SetGuard(Att, Runs, Fails + 1, Reinits, "raised")
  ELSE /\ UNCHANGED <<sess, faults>>
       /\ SetGuard(Att, Runs, Fails + 1, Reinits, IF RetryCaught(Att) THEN "None" ELSE "raised")
       /\ IF RetryCaught(Att)
          THEN pc' = after /\ UNCHANGED exc
          ELSE Propagate("InvalidSessionIdException")

\* func raised another exception e
OtherRaised(e, after) ==
  /\ SetGuard(Att, Runs, Fails, Reinits, IF RetryCaught(Att) THEN "None" ELSE "raised")
  /\ IF RetryCaught(Att)
     THEN pc' = after /\ UNCHANGED exc
     ELSE Propagate(e)

----------------------------------------------------------------------------
\* a container with nothing in it
NoReview == [stars |-> <<>>, vtext |-> FALSE, badge |-> FALSE, meta |-> <<>>,
             date |-> <<>>, body |-> <<>>]

\* run_scraper is entered: nothing constructed yet
InitRun ==
  /\ pc = "construct"
  /\ restarts = 0
  /\ faults = 0
  /\ exc = "none"
  /\ browser = 0
  /\ live = {}
  /\ shown = "blank"
  /\ page = 0
  /\ results = <<>>
  /\ files = [c \in Categories |-> Absent]
  /\ committed = [c \in Categories |-> Absent]
  /\ cat = 1
  /\ links = <<>>
  /\ i = 0
  /\ attempt = 0
  /\ runs = 1
  /\ fails = 0
  /\ reinits = 0
  /\ ret = "result"
  /\ mark = 0
  /\ oploss = 0
  /\ opfault = FALSE
  /\ rev = NoReview
  /\ emitted = <<>>
  /\ raw = <<>>
  /\ df = <<>>
  /\ lenient = FALSE

Init ==
  /\ InitRun
  /\ threads \in [Urls -> 0..MaxPages]
  /\ perPage \in 1..MaxPerPage

----------------------------------------------------------------------------
(* Records *)

\* the records parsed from review page p of product u (lines 226-264): one
\* per review container, in document order; <<c, u, p, k>> identifies the
\* k-th review of page p
PageRecords(c, u, p) == [k \in 1..perPage |-> <<c, u, p, k>>]

\* the caller's bookkeeping inside one extract_reviews call
CallTrack ==
  /\ UNCHANGED <<mark, oploss>>
  /\ opfault' = (opfault \/ faults' # faults)

\* the caller is about to call extract_reviews (line 336)
CallBegin(buf) ==
  /\ mark' = Len(buf)
  /\ oploss' = 0
  /\ opfault' = FALSE

----------------------------------------------------------------------------
(* run_scraper, lines 320-324 *)

\* variant: the new run takes up the category loop where the last one failed
ConstructResume ==
  /\ pc = "construct"
  /\ \/ /\ InitBrowserOk(0)
        /\ results' = <<>>
        /\ pc' = "home"
        /\ UNCHANGED <<exc, faults>>
     \/ /\ InitBrowserFail(0)
        /\ Propagate("BrowserInitError")
        /\ UNCHANGED results
  /\ cat' = cat
  /\ links' = <<>>
  /\ i' = 0
  /\ UNCHANGED <<restarts, store, guard, call, site, parse>>

\* line 323: JumiaRetailScraper(...): a new object with an empty buffer and
\* no browser, then _init_browser (line 56); when the constructor raises,
\* jumia_bot keeps the object of the previous iteration
Construct ==
  /\ pc = "construct"
  /\ \/ /\ InitBrowserOk(0)
        /\ results' = <<>>
        /\ pc' = "home"
        /\ UNCHANGED <<exc, faults>>
     \/ /\ InitBrowserFail(0)
        /\ Propagate("BrowserInitError")
        /\ UNCHANGED results
  /\ cat' = 1
  /\ links' = <<>>
  /\ i' = 0
  /\ UNCHANGED <<restarts, store, guard, call, site, parse>>

\* line 324: navigate_home_and_clear_popups (lines 139-175), guarded; the
\* waits for the popups swallow their timeouts
Home ==
  /\ pc = "home"
  /\ IF browser \in live
     THEN /\ shown' = "home"
          /\ page' = 0
          /\ GuardReturn("result")
          /\ pc' = "cat_get"
          /\ UNCHANGED <<browser, live, exc, faults>>
     ELSE SessionLost("home", "cat_get")
  /\ UNCHANGED <<restarts, results, store, orch, call, site, parse>>

\* line 329: _session_guard(jumia_bot.browser.get, cat_url): func is the
\* method bound to the browser held when the guard is called; the retry
\* calls it on that browser, which _init_browser has quit
CatGet ==
  /\ pc = "cat_get"
  /\ IF Att = 0 /\ browser \in live
     THEN /\ shown' = "listing"
          /\ page' = 0
          /\ GuardReturn("result")
          /\ pc' = "discover"
          /\ UNCHANGED <<browser, live, exc, faults>>
     ELSE SessionLost("cat_get", "discover")
  /\ UNCHANGED <<restarts, results, store, orch, call, site, parse>>

\* line 335: where run_scraper goes with the links found
AfterDiscover(ls) == IF Len(ls) > 0 THEN "ext_get" ELSE "export"

\* lines 187-194: the hrefs of the product cards of a listing page, in page
\* order: cards of different products, or several cards with the same href
Listings ==
  { [k \in 1..n |-> k] : n \in 0..MaxProducts }
    \cup { [k \in 1..n |-> 1] : n \in 2..MaxProducts }

\* line 332: discover_products (lines 177-200), guarded: wait for a product
\* card, then one link per card that has an anchor, appended in page order
Discover ==
  /\ pc = "discover"
  /\ IF browser \notin live
     THEN /\ SessionLost("discover", "export")
          /\ links' = IF ret' = "None" THEN <<>> ELSE links
     ELSE IF shown = "listing"
          THEN \/ \E ls \in Listings :
                    /\ links' = ls
                    /\ GuardReturn("result")
                    /\ pc' = AfterDiscover(links')
                    /\ UNCHANGED <<sess, exc, faults>>
               \/ /\ OtherRaised("TimeoutException", "export")
                  /\ links' = <<>>
                  /\ UNCHANGED <<sess, faults>>
          ELSE /\ OtherRaised("TimeoutException", "export")
               /\ links' = <<>>
               /\ UNCHANGED <<sess, faults>>
  /\ i' = 0
  /\ CallBegin(results)
  /\ UNCHANGED <<restarts, results, store, cat, site, parse>>

----------------------------------------------------------------------------
(* extract_reviews, lines 202-277, guarded *)

Url == links[i + 1]

\* line 208: open the product page
ExtGet ==
  /\ pc = "ext_get"
  /\ IF browser \in live
     THEN /\ shown' = "product"
          /\ page' = 0
          /\ GuardContinue
          /\ pc' = "ext_seeall"
          /\ UNCHANGED <<browser, live, exc, faults>>
     ELSE SessionLost("ext_get", "refresh")
  /\ CallTrack
  /\ UNCHANGED <<restarts, results, store, orch, site, parse>>

\* variant: the wait for "See All Reviews" has no handler of its own
ExtSeeAllUncaught ==
  /\ pc = "ext_seeall"
  /\ IF browser \in live
     THEN /\ IF threads[Url] = 0
             THEN /\ OtherRaised("TimeoutException", "refresh")
                  /\ UNCHANGED <<shown, page>>
             ELSE /\ shown' = "reviews"
                  /\ page' = 1
                  /\ GuardContinue
                  /\ pc' = "ext_page"
                  /\ UNCHANGED exc
          /\ UNCHANGED <<browser, live, faults>>
     ELSE SessionLost("ext_get", "refresh")
  /\ CallTrack
  /\ UNCHANGED <<restarts, results, store, orch, site, parse>>

\* lines 212-220: click "See All Reviews"; its absence ends the call
ExtSeeAll ==
  /\ pc = "ext_seeall"
  /\ IF browser \in live
     THEN /\ IF threads[Url] = 0
             THEN /\ GuardReturn("result")
                  /\ pc' = "refresh"
                  /\ UNCHANGED <<shown, page>>
             ELSE /\ shown' = "reviews"
                  /\ page' = 1
                  /\ GuardContinue
                  /\ pc' = "ext_page"
          /\ UNCHANGED <<browser, live, exc, faults>>
     ELSE SessionLost("ext_get", "refresh")
  /\ CallTrack
  /\ UNCHANGED <<restarts, results, store, orch, site, parse>>

\* lines 224-264: wait for an article, parse the page shown, append one
\* record per review container
ExtPage ==
  /\ pc = "ext_page"
  /\ IF browser \in live
     THEN \/ /\ results' = results \o PageRecords(cat, Url, page)
             /\ GuardContinue
             /\ pc' = "ext_next"
             /\ UNCHANGED <<sess, exc, faults>>
          \/ /\ faults < MaxFaults
             /\ faults' = faults + 1
             /\ OtherRaised("TimeoutException", "refresh")
             /\ UNCHANGED <<sess, results>>
     ELSE /\ SessionLost("ext_get", "refresh")
          /\ UNCHANGED results
  /\ CallTrack
  /\ UNCHANGED <<restarts, store, orch, site, parse>>

\* lines 267-274: find the next-page control and click it; no control or an
\* intercepted click ends the loop; after the click only a settle delay
ExtNext ==
  /\ pc = "ext_next"
  /\ IF browser \in live
     THEN /\ IF page >= threads[Url]
             THEN /\ GuardReturn("result")
                  /\ pc' = "refresh"
                  /\ UNCHANGED <<page, faults>>
             ELSE \/ /\ page' = page + 1
                     /\ GuardContinue
                     /\ pc' = "ext_page"
                     /\ UNCHANGED faults
                  \/ /\ faults < MaxFaults   \* the page changes after the delay
                     /\ faults' = faults + 1
                     /\ UNCHANGED page
                     /\ GuardContinue
                     /\ pc' = "ext_page"
                  \/ /\ faults < MaxFaults   \* the click is intercepted
                     /\ faults' = faults + 1
                     /\ UNCHANGED page
                     /\ GuardReturn("result")
                     /\ pc' = "refresh"
          /\ UNCHANGED <<browser, live, shown, exc>>
     ELSE SessionLost("ext_get", "refresh")
  /\ UNCHANGED <<mark, oploss>>
  /\ opfault' = (opfault \/ (faults' # faults /\ pc' # "ext_page"))
  /\ UNCHANGED <<restarts, results, store, orch, site, parse>>

\* lines 338-341 and the loop head 335: refresh the browser when
\* i % 20 == 0, then go to the next link
Refresh ==
  /\ pc = "refresh"
  /\ IF i % RefreshEvery = 0
     THEN \/ /\ InitBrowserOk(browser)
             /\ pc' = IF i + 1 < Len(links) THEN "ext_get" ELSE "export"
             /\ i' = i + 1
             /\ CallBegin(results)
             /\ UNCHANGED <<exc, faults>>
          \/ /\ InitBrowserFail(browser)
             /\ Propagate("BrowserInitError")
             /\ UNCHANGED i
             /\ CallTrack
     ELSE /\ pc' = IF i + 1 < Len(links) THEN "ext_get" ELSE "export"
          /\ i' = i + 1
          /\ CallBegin(results)
          /\ UNCHANGED <<sess, exc, faults>>
  /\ UNCHANGED <<restarts, results, store, cat, links, guard, site, parse>>

----------------------------------------------------------------------------
(* export_data, lines 279-294, and the end of the category loop *)

\* lines 327 and 346-347: the next category, or the shutdown after the last
NextCategory ==
  IF cat < NumCategories
  THEN cat' = cat + 1 /\ pc' = "cat_get"
  ELSE cat' = cat /\ pc' = "shutdown"

\* lines 281-290: nothing to do on an empty buffer; else to_csv opens the
\* category's file for writing, which truncates it
Export ==
  /\ pc = "export"
  /\ IF results = <<>>
     THEN /\ NextCategory
          /\ UNCHANGED <<store, exc, faults>>
     ELSE \/ /\ files' = [files EXCEPT ![cat] = File(<<>>)]
             /\ pc' = "export_write"
             /\ UNCHANGED <<committed, cat, exc, faults>>
          \/ /\ faults < MaxFaults
             /\ faults' = faults + 1
             /\ Propagate("OSError")
             /\ UNCHANGED <<store, cat>>
  /\ CallTrack
  /\ UNCHANGED <<restarts, sess, results, links, i, guard, site, parse>>

\* lines 290-294: the rows are written and the file closed, then the buffer
\* is cleared; a write error leaves the truncated file
ExportWrite ==
  /\ pc = "export_write"
  /\ \/ /\ files' = [files EXCEPT ![cat] = File(results)]
        /\ committed' = [committed EXCEPT ![cat] = File(results)]
        /\ results' = <<>>
        /\ NextCategory
        /\ UNCHANGED <<exc, faults>>
     \/ /\ faults < MaxFaults
        /\ faults' = faults + 1
        /\ Propagate("OSError")
        /\ UNCHANGED <<store, results, cat>>
  /\ CallTrack
  /\ UNCHANGED <<restarts, sess, links, i, guard, site, parse>>

----------------------------------------------------------------------------
(* shutdown and the restart loop *)

\* lines 296-303: quit the browser; only InvalidSessionIdException is caught.
\* quit of a dead browser raises that or another driver error
ShutdownBody(next) ==
  IF browser \in live \/ browser = 0
  THEN /\ live' = live \ {browser}
       /\ pc' = next
       /\ UNCHANGED exc
  ELSE \/ /\ pc' = next
          /\ UNCHANGED <<live, exc>>
       \/ /\ Propagate("WebDriverException")
          /\ UNCHANGED live

\* line 347-348
Shutdown ==
  /\ pc = "shutdown"
  /\ ShutdownBody("done")
  /\ UNCHANGED <<restarts, faults, browser, shown, page, results, store,
                 orch, guard, call, site, parse>>

\* line 354: the handler looks up 'bot'; the local is named jumia_bot
BotInLocals == FALSE

\* lines 350-355: the handler of the restart loop
Handler ==
  /\ pc = "except"
  /\ IF BotInLocals
     THEN /\ live' = live \ {browser}
          /\ pc' = "backoff"
     ELSE /\ pc' = "backoff"
          /\ UNCHANGED live
  /\ UNCHANGED <<restarts, faults, exc, browser, shown, page, results, store,
                 orch, guard, call, site, parse>>

\* lines 357-360 and 320: sleep, then the next iteration of while True
Restart ==
  /\ pc = "backoff"
  /\ restarts < MaxRestarts
  /\ restarts' = restarts + 1
  /\ pc' = "construct"
  /\ exc' = "none"
  /\ UNCHANGED <<faults, sess, results, store, orch, guard, call, site, parse>>

----------------------------------------------------------------------------
(* Environment *)

ExtPcs == {"ext_get", "ext_seeall", "ext_page", "ext_next"}
UsePcs == ExtPcs \cup {"home", "cat_get", "discover", "shutdown"}

\* the browser of the current session dies and its handle becomes invalid;
\* the loss is placed right before the step whose browser call meets it
SessionLoss ==
  /\ pc \in UsePcs
  /\ browser \in live
  /\ faults < MaxFaults
  /\ faults' = faults + 1
  /\ live' = live \ {browser}
  /\ oploss' = IF pc \in ExtPcs THEN oploss + 1 ELSE oploss
  /\ UNCHANGED <<pc, restarts, exc, browser, shown, page, results, store,
                 orch, guard, mark, opfault, site, parse>>

\* the process is killed: memory is lost, files and browser processes stay
Crash ==
  /\ pc \notin {"done", "crashed"}
  /\ pc' = "crashed"
  /\ exc' = "none"
  /\ browser' = 0
  /\ shown' = "blank"
  /\ page' = 0
  /\ results' = <<>>
  /\ links' = <<>>
  /\ i' = 0
  /\ SetGuard(0, 1, 0, 0, "result")
  /\ mark' = 0
  /\ oploss' = 0
  /\ opfault' = FALSE
  /\ UNCHANGED <<restarts, faults, live, store, cat, site, parse>>

Next ==
  \/ Construct
  \/ Home
  \/ CatGet
  \/ Discover
  \/ ExtGet
  \/ ExtSeeAll
  \/ ExtPage
  \/ ExtNext
  \/ Refresh
  \/ Export
  \/ ExportWrite
  \/ Shutdown
  \/ Handler
  \/ Restart
  \/ SessionLoss
  \/ Crash

Spec == Init /\ [][Next]_vars

----------------------------------------------------------------------------
(* The record built from one review container, lines 229-264.  A class     *)
(* token is a sequence of characters, a text a sequence of words, an       *)
(* optional element a sequence of length 0 or 1.                           *)

MaxClasses == 2

Digits == {"0", "1", "2", "3", "4", "5", "6", "7", "8", "9"}

DigitVal(ch) ==
  CASE ch = "0" -> 0 [] ch = "1" -> 1 [] ch = "2" -> 2 [] ch = "3" -> 3
    [] ch = "4" -> 4 [] ch = "5" -> 5 [] ch = "6" -> 6 [] ch = "7" -> 7
    [] ch = "8" -> 8 [] ch = "9" -> 9

\* str.isdigit(): non-empty and all digits
IsDigit(str) == Len(str) > 0 /\ \A k \in 1..Len(str) : str[k] \in Digits

\* int(str) of a digit string
RECURSIVE IntOf(_)
IntOf(str) ==
  IF Len(str) = 0 THEN 0
  ELSE 10 * IntOf(SubSeq(str, 1, Len(str) - 1)) + DigitVal(str[Len(str)])

\* cls[1:]
Suffix(cls) == SubSeq(cls, 2, Len(cls))

\* line 235: cls.startswith("_") and cls[1:].isdigit()
IsRatingClass(cls) == Len(cls) > 0 /\ cls[1] = "_" /\ IsDigit(Suffix(cls))

\* lines 231-236: 0, overwritten by each class token with a numeric suffix
RECURSIVE RatingOf(_, _)
RatingOf(classes, rating) ==
  IF classes = <<>> THEN rating
  ELSE RatingOf(Tail(classes),
                IF IsRatingClass(Head(classes)) THEN IntOf(Suffix(Head(classes)))
                ELSE rating)

Rating(r) == IF r.stars = <<>> THEN 0 ELSE RatingOf(r.stars[1], 0)

\* line 247: replace("by ", "") on a stripped text: every word "by" that
\* another word follows goes away
RECURSIVE StripBy(_)
StripBy(words) ==
  IF Len(words) <= 1 THEN words
  ELSE IF Head(words) = "by" THEN StripBy(Tail(words))
       ELSE <<Head(words)>> \o StripBy(Tail(words))

\* lines 242-247
UserName(r) ==
  IF r.meta = <<>> \/ r.meta[1] = <<>> THEN <<"Anonymous">>
  ELSE StripBy(r.meta[1][1])

\* lines 256-264: the dictionary appended to self.results
ReviewRecord(category, product_url, r) ==
  [ Category       |-> category,
    Product_URL    |-> product_url,
    User_Name      |-> UserName(r),
    Rating         |-> Rating(r),
    Timestamp      |-> IF r.date = <<>> THEN <<"N/A">> ELSE r.date[1],
    Verified_Badge |-> (r.vtext \/ r.badge),
    Review_Text    |-> IF r.body = <<>> THEN <<>> ELSE r.body[1] ]

\* class tokens a star indicator may carry
ClassTokens == { <<"s", "t", "a", "r", "s">>, <<"_">>, <<"_", "s">>,
                 <<"_", "4">>, <<"_", "7">>, <<"_", "1", "0">>, <<"4">> }

ClassLists == UNION { [1..n -> ClassTokens] : n \in 0..MaxClasses }

Texts == { <<"by", "ann">>, <<"ann">>, <<"by">> }

\* review containers: stars div absent or with a class list; the metadata
\* div absent, without span, or with a first span
Reviews ==
  [ stars : {<<>>} \cup { <<cl>> : cl \in ClassLists },
    vtext : BOOLEAN,
    badge : BOOLEAN,
    meta  : {<<>>, << <<>> >>} \cup { << <<t>> >> : t \in Texts },
    date  : {<<>>, << <<"12-03-2024">> >>},
    body  : {<<>>, << <<"good", "phone">> >>} ]

\* the body of the loop at line 229 for one container
ParseReview ==
  /\ pc = "parse"
  /\ emitted = <<>>
  /\ emitted' = << ReviewRecord(cat, Url, rev) >>
  /\ pc' = "parsed"
  /\ UNCHANGED <<restarts, faults, exc, sess, results, store, orch, guard,
                 call, site, rev, frame>>

InitParse ==
  /\ pc = "parse"
  /\ restarts = 0
  /\ faults = 0
  /\ exc = "none"
  /\ browser = 1
  /\ live = {1}
  /\ shown = "reviews"
  /\ page = 1
  /\ results = <<>>
  /\ files = [c \in Categories |-> Absent]
  /\ committed = [c \in Categories |-> Absent]
  /\ cat = 1
  /\ links = <<1>>
  /\ i = 0
  /\ attempt = 0
  /\ runs = 1
  /\ fails = 0
  /\ reinits = 0
  /\ ret = "pending"
  /\ mark = 0
  /\ oploss = 0
  /\ opfault = FALSE
  /\ threads = [u \in Urls |-> 1]
  /\ perPage = 1
  /\ rev \in Reviews
  /\ emitted = <<>>
  /\ raw = <<>>
  /\ df = <<>>
  /\ lenient = FALSE

NextParse == ParseReview

SpecParse == InitParse /\ [][NextParse]_vars

----------------------------------------------------------------------------
(* A site whose categories hold more reviews than one batch *)

InitBatch ==
  /\ InitRun
  /\ threads = [u \in Urls |-> MaxPages]
  /\ perPage = BulkPerPage

SpecBatch == InitBatch /\ [][Next]_vars

----------------------------------------------------------------------------
(* preprocessor.py: JumiaPreprocessor on the merged frame *)

\* rows of the merged frame
MaxRows == 2

\* a string cell is a sequence of characters; read_csv gives NaN for an
\* empty field
NaN == <<>>
IsNa(cell) == cell = NaN

\* the missing datetime
NaT == <<>>

\* str.lower() on the letters the cells use
LowerChar(ch) ==
  CASE ch = "T" -> "t" [] ch = "F" -> "f" [] ch = "G" -> "g" [] ch = "I" -> "i"
    [] OTHER -> ch

Lower(str) == [k \in 1..Len(str) |-> LowerChar(str[k])]

\* the longest prefix of digits
RECURSIVE DigitRun(_)
DigitRun(str) ==
  IF str = <<>> \/ Head(str) \notin Digits THEN <<>>
  ELSE <<Head(str)>> \o DigitRun(Tail(str))

\* line 74: .str.extract(r'(\d+)'): the first run of digits, NaN without one
RECURSIVE ExtractDigits(_)
ExtractDigits(str) ==
  IF str = <<>> THEN NaN
  ELSE IF Head(str) \in Digits THEN DigitRun(str)
  ELSE ExtractDigits(Tail(str))

\* lines 71-77: the Rating cell as text, its first number, 0 without one
RatingInt(cell) ==
  LET found == ExtractDigits(cell)
  IN  IF IsNa(found) THEN 0 ELSE IntOf(found)

\* line 81: the strings that count as a verified badge
Truthy == { <<"t", "r", "u", "e">>, <<"1">>,
            <<"v", "e", "r", "i", "f", "i", "e", "d", " ",
              "p", "u", "r", "c", "h", "a", "s", "e">> }

\* lines 80-82
VerifiedBool(cell) == Lower(cell) \in Truthy

\* line 85: pd.to_datetime(dayfirst=True, errors='coerce') on one cell, given
\* as the number fields of its text ("N/A" has none): day first; a parser
\* that retries month-first when the day-first reading is no date accepts
\* 12-25 as well; anything else is coerced to NaT
ToDatetime(cell, swap) ==
  IF Len(cell) # 2 THEN NaT
  ELSE IF cell[1] \in 1..31 /\ cell[2] \in 1..12 THEN <<cell[1], cell[2]>>
  ELSE IF swap /\ cell[1] \in 1..12 /\ cell[2] \in 1..31
       THEN <<cell[2], cell[1]>>
  ELSE NaT

\* str.split(): the maximal runs of characters other than the space
RECURSIVE SplitAcc(_, _)
SplitAcc(str, word) ==
  LET done == IF word = <<>> THEN <<>> ELSE <<word>>
  IN  IF str = <<>> THEN done
      ELSE IF Head(str) = " " THEN done \o SplitAcc(Tail(str), <<>>)
      ELSE SplitAcc(Tail(str), Append(word, Head(str)))

Split(str) == SplitAcc(str, <<>>)

\* " ".join(tokens)
RECURSIVE Join(_)
Join(words) ==
  IF words = <<>> THEN <<>>
  ELSE IF Len(words) = 1 THEN Head(words)
  ELSE Head(words) \o <<" ">> \o Join(Tail(words))

\* line 97: characters that are neither \w nor \s
Punctuation == {"!", ".", ",", "?"}

\* length of the run of equal characters that starts str
RECURSIVE RunLen(_)
RunLen(str) ==
  IF Len(str) <= 1 THEN Len(str)
  ELSE IF str[2] = str[1] THEN 1 + RunLen(Tail(str))
  ELSE 1

\* line 100: re.sub(r'(.)\1{2,}', r'\1'): a run of three or more equal
\* characters becomes one
RECURSIVE Squeeze(_)
Squeeze(str) ==
  IF str = <<>> THEN <<>>
  ELSE IF RunLen(str) >= 3
       THEN <<Head(str)>> \o Squeeze(SubSeq(str, RunLen(str) + 1, Len(str)))
  ELSE <<Head(str)>> \o Squeeze(Tail(str))

\* line 104 on the words of the model: spaCy's stop words and lemmas
StopWords == { <<"i", "t">>, <<"t", "h", "e">> }

Lemma(word) ==
  IF word = <<"p", "h", "o", "n", "e", "s">> THEN <<"p", "h", "o", "n", "e">>
  ELSE word

\* lines 90-105
NormalizeText(text) ==
  LET NotPunct(ch) == ch \notin Punctuation
      NotStop(word) == word \notin StopWords
      kept == SelectSeq(Split(Squeeze(SelectSeq(Lower(text), NotPunct))), NotStop)
  IN  Join([k \in 1..Len(kept) |-> Lemma(kept[k])])

\* the cells a raw row may hold, as the scraper's export writes them
RawRows ==
  [ Category       : {1},
    Product_URL    : {1},
    User_Name      : {NaN, <<"b", "o", "b">>},
    Rating         : {<<"5", " ", "o", "f", " ", "5">>, <<"n", "a", "n">>},
    Timestamp      : {<<>>, <<25, 12>>, <<12, 25>>},
    Verified_Badge : {<<"T", "r", "u", "e">>, <<"F", "a", "l", "s", "e">>},
    Review_Text    : {NaN, <<"I", "t", " ", "g", "o", "o", "o", "d", " ",
                            "p", "h", "o", "n", "e", "s", "!">>} ]

\* line 50: the merged frame, labelled 1..n in file order
Labelled(rows) == [k \in 1..Len(rows) |-> [idx |-> k, row |-> rows[k]]]

\* a column-wise assignment: every row is rewritten, none added or removed
MapRows(d, F(_)) == [k \in 1..Len(d) |-> [idx |-> d[k].idx, row |-> F(d[k].row)]]

\* line 58: drop_duplicates keeps the first of the rows equal in all columns
DropDuplicates(d) ==
  LET IsFirst(e) == \A j \in 1..Len(d) : d[j].row = e.row => d[j].idx >= e.idx
  IN  SelectSeq(d, IsFirst)

\* line 61: dropna(subset=['Review_Text'])
DropNaText(d) ==
  LET HasText(e) == ~IsNa(e.row.Review_Text)
  IN  SelectSeq(d, HasText)

\* line 64
FillUser(r) ==
  [r EXCEPT !.User_Name = IF IsNa(@) THEN <<"Anonymous">> ELSE @]

\* variant: the rows without a datetime stay in the frame
KeepNaT(d) == d

\* line 86: dropna(subset=['Timestamp'])
DropNaT(d) ==
  LET HasTime(e) == e.row.Timestamp # NaT
  IN  SelectSeq(d, HasTime)

\* lines 71-85 on one row
FormatRow(r) ==
  [r EXCEPT !.Rating = RatingInt(@),
            !.Verified_Badge = VerifiedBool(@),
            !.Timestamp = ToDatetime(@, lenient)]

\* lines 112-116 on one row
NlpRow(r) ==
  [Text_Length  |-> Len(r.Review_Text),
   Word_Count   |-> Len(Split(r.Review_Text)),
   Cleaned_Text |-> NormalizeText(r.Review_Text)] @@ r

\* lines 53-66
CleanStructure ==
  /\ pc = "prep_clean"
  /\ df' = MapRows(DropNaText(DropDuplicates(df)), FillUser)
  /\ pc' = "prep_format"
  /\ UNCHANGED <<restarts, faults, exc, sess, results, store, orch, guard,
                 call, site, rev, emitted, raw, lenient>>

\* lines 68-88
FormatFeatures ==
  /\ pc = "prep_format"
  /\ df' = DropNaT(MapRows(df, FormatRow))
  /\ pc' = "prep_nlp"
  /\ UNCHANGED <<restarts, faults, exc, sess, results, store, orch, guard,
                 call, site, rev, emitted, raw, lenient>>

\* lines 107-118
ProcessNlp ==
  /\ pc = "prep_nlp"
  /\ df' = MapRows(df, NlpRow)
  /\ pc' = "prep_done"
  /\ UNCHANGED <<restarts, faults, exc, sess, results, store, orch, guard,
                 call, site, rev, emitted, raw, lenient>>

\* lines 138-139: a preprocessor with its files loaded and merged
InitPrep ==
  /\ pc = "prep_clean"
  /\ restarts = 0
  /\ faults = 0
  /\ exc = "none"
  /\ browser = 0
  /\ live = {}
  /\ shown = "blank"
  /\ page = 0
  /\ results = <<>>
  /\ files = [c \in Categories |-> Absent]
  /\ committed = [c \in Categories |-> Absent]
  /\ cat = 1
  /\ links = <<>>
  /\ i = 0
  /\ attempt = 0
  /\ runs = 1
  /\ fails = 0
  /\ reinits = 0
  /\ ret = "result"
  /\ mark = 0
  /\ oploss = 0
  /\ opfault = FALSE
  /\ threads = [u \in Urls |-> 0]
  /\ perPage = 1
  /\ rev = NoReview
  /\ emitted = <<>>
  /\ lenient \in BOOLEAN
  /\ raw \in UNION { [1..n -> RawRows] : n \in 0..MaxRows }
  /\ df = Labelled(raw)

\* lines 140-142
NextPrep == CleanStructure \/ FormatFeatures \/ ProcessNlp

SpecPrep == InitPrep /\ [][NextPrep]_vars

----------------------------------------------------------------------------
(* Properties *)

\* C1: in every state the buffer holds at most one batch (50) of records not
\* yet written to the category's file.  export_data clears the buffer as it
\* writes, so every buffered record is an unwritten one.
C1_UnsavedAtMostBatch == Len(results) <= 50

\* C2: once a category's file was committed, a crash at any step of a later
\* save leaves exactly the committed content in the file.
C2_SaveAtomic ==
  pc = "crashed" =>
    \A c \in Categories : committed[c].exists => files[c] = committed[c]

\* C3: at most one browser session is live in every state.
C3_AtMostOneSession == Cardinality(live) <= 1

\* C4: when _init_browser fails to start the engine the process stops: the
\* restart loop neither backs off nor starts the run again.
C4_InitFailureIsFatal == exc = "BrowserInitError" => pc \notin {"backoff", "construct"}

\* C5 (as stated): an operation that failed with a lost session in its first
\* call and in its first retry is called a third time.
C5_TwoRetries == (ret # "pending" /\ fails >= 2) => runs >= 3

\* C5 (amended): the guard retries once: func is called at most twice, and
\* when the first call and the retry both lose the session the guard returns
\* None without a third call.
C5_OneRetry ==
  /\ runs <= 2
  /\ (ret # "pending" /\ fails >= 2) => (runs = 2 /\ ret = "None")

C5_Witness == pc = "refresh" /\ ret = "None" /\ fails = 2 /\ runs = 2

\* C6: once the first call lost the session and the browser was started
\* again, the guard does not raise: no step of the retry leads to the handler
\* of run_scraper, the guard returns the result or None, and run_scraper
\* goes on.
C6_GuardNeverRaises ==
  /\ [](runs >= 2 => ret # "raised")
  /\ [][(ret = "pending" /\ attempt >= 1) => pc' # "except"]_vars

C6_Witness == pc = "refresh" /\ ret = "None" /\ runs = 2 /\ fails = 1

\* the records of the whole review thread of product u, page by page
RECURSIVE ThreadRecords(_, _, _)
ThreadRecords(c, u, n) ==
  IF n = 0 THEN <<>> ELSE ThreadRecords(c, u, n - 1) \o PageRecords(c, u, n)

\* what the current extract_reviews call appended
Appended == SubSeq(results, mark + 1, Len(results))

\* C9: a call of extract_reviews that met no failure, whatever the timing of
\* the page changes, has appended the records of pages 1..N, each once, when
\* it returns.
C9_ExactUnion ==
  (pc = "refresh" /\ ret = "result" /\ runs = 1 /\ oploss = 0 /\ ~opfault)
    => Appended = ThreadRecords(cat, Url, threads[Url])

\* C10: one session lost during a product's extraction, and no other
\* failure: the guard starts the browser exactly once, and either the retry
\* completes the extraction or, the one retry having failed too, the
\* product is skipped; the handler of run_scraper is not reached, and no
\* step of the extraction changes a file.
C10_SingleLossRecovered ==
  /\ []((oploss = 1 /\ ~opfault) =>
          /\ pc # "except"
          /\ pc = "refresh" =>
               /\ reinits = 1
               /\ \/ ret = "result" /\ runs = 2
                  \/ ret = "None" /\ runs = 2 /\ fails = 2)
  /\ [][(pc \in ExtPcs) => UNCHANGED <<files, committed>>]_vars

C10_Witness ==
  /\ pc = "refresh" /\ oploss = 1 /\ ~opfault /\ reinits = 1 /\ ret = "result"
  /\ Len(results) > mark
  /\ \E c \in Categories : committed[c].exists

\* C7: every record appended carries all eight schema fields.
C7_AllEightFields ==
  emitted # <<>> =>
    {"Category", "Product_URL", "User_Name", "Rating", "Review_Title",
     "Review_Text", "Timestamp", "Verified_Badge"} \subseteq DOMAIN emitted[1]

\* C8: the Rating of every record is an integer in 0..5, whatever class
\* tokens the star indicator carries.
C8_RatingInRange == emitted # <<>> => emitted[1].Rating \in 0..5

\* C11: discover_products on a listing that shows no product returns an
\* empty collection and run_scraper goes on to the export step of the
\* category (which writes nothing) without an exception reaching its handler.
C11_EmptyListingProceeds ==
  [][(/\ pc = "discover" /\ browser \in live /\ shown = "listing"
      /\ live' = live /\ pc' # "crashed" /\ links' = <<>>)
       => (pc' = "export" /\ ret' = "result")]_vars

\* C12: on a product page without a "See All Reviews" link the call of
\* extract_reviews returns normally and appends nothing: while that product
\* is the current one the buffer keeps the length it had when the call began,
\* the step that misses the link hands control back to the product loop with
\* no exception, and the loop then goes to the following link or to the export.
C12_NoReviewsLinkSkipsProduct ==
  /\ []((pc \in ExtPcs \cup {"refresh"} /\ threads[Url] = 0)
          => Len(results) = mark)
  /\ [][(/\ pc = "ext_seeall" /\ browser \in live /\ threads[Url] = 0
         /\ live' = live /\ pc' # "crashed")
          => (/\ pc' = "refresh" /\ ret' = "result" /\ exc' = exc
              /\ results' = results /\ i' = i)]_vars
  /\ [][(pc = "refresh" /\ pc' \notin {"refresh", "crashed", "except"})
          => (/\ i' = i + 1 /\ results' = results
              /\ pc' = IF i' < Len(links) THEN "ext_get" ELSE "export")]_vars

\* the first product had no link, and the second one is being extracted in
\* an undisturbed run
C12_Witness ==
  /\ pc = "ext_page" /\ i = 1 /\ Len(links) = 2
  /\ threads[links[1]] = 0 /\ threads[links[2]] > 0
  /\ faults = 0 /\ restarts = 0 /\ Len(results) = 0

\* line 85-86 on a raw row: its Timestamp gives a datetime
Parses(r) == ToDatetime(r.Timestamp, lenient) # NaT

\* a raw row that neither line 61 nor line 86 drops
Valid(r) == ~IsNa(r.Review_Text) /\ Parses(r)

\* the index labels of the rows in the frame
Kept == { df[a].idx : a \in 1..Len(df) }

\* C13: clean_structure, format_features and process_nlp never add a row:
\* the frame only shrinks, its rows are rows of the input in input order,
\* each taken at most once and with its review text; once format_features
\* has run no row of the frame lacks a datetime and no input row whose
\* Timestamp does not parse is left; every row left was a row with a review
\* text and a Timestamp that parses, and each such input row has exactly one
\* row in the frame that stands for it (equal rows share the first of them).
C13_OneRowPerValidRow ==
  /\ [](/\ Len(df) <= Len(raw)
        /\ \A a, b \in 1..Len(df) : a < b => df[a].idx < df[b].idx
        /\ \A a \in 1..Len(df) :
             /\ df[a].idx \in 1..Len(raw)
             /\ df[a].row.Review_Text = raw[df[a].idx].Review_Text
        /\ pc \in {"prep_nlp", "prep_done"} =>
             /\ \A a \in 1..Len(df) : df[a].row.Timestamp # NaT
             /\ \A k \in 1..Len(raw) : ~Parses(raw[k]) => k \notin Kept
             /\ \A k \in Kept : Valid(raw[k])
             /\ \A k \in 1..Len(raw) : Valid(raw[k]) =>
                  Cardinality({ j \in Kept : raw[j] = raw[k] }) = 1)
  /\ [][Len(df') <= Len(df)]_vars

\* the pipeline has finished on two rows with a review text: the first had
\* the Timestamp "N/A" and is gone, the second is the only row left
C13_Witness ==
  /\ pc = "prep_done" /\ Len(raw) = 2 /\ Len(df) = 1 /\ df[1].idx = 2
  /\ ~IsNa(raw[1].Review_Text) /\ raw[1].Timestamp = <<>>


\* C14: when the wait for the first review container of a review page times
\* out, the pagination of the product ends there: the buffer keeps what the
\* product has contributed and the product loop goes on, with no exception
\* reaching the handler of run_scraper.
C14_PageTimeoutEndsPagination ==
  [][(/\ pc = "ext_page" /\ browser \in live /\ live' = live
      /\ faults' > faults /\ pc' # "crashed")
       => (pc' = "refresh" /\ results' = results /\ exc' = exc)]_vars


\* C15: a failure of the write in export_data stays inside export_data: the
\* step in which the write fails does not hand an exception to the handler
\* of run_scraper, and the file written before keeps its complete content.
C15_WriteFailureNotFatal ==
  [][(pc \in {"export", "export_write"} /\ faults' > faults /\ pc' # "crashed")
       => (/\ pc' \notin {"except", "backoff"} /\ exc' = exc
           /\ files'[cat] = committed'[cat])]_vars


\* C16: the links returned by discover_products hold no URL twice, so the
\* product loop of a category never visits the same URL twice.
C16_LinksDeduplicated ==
  \A a, b \in 1..Len(links) : links[a] = links[b] => a = b


\* C17: the product loop replaces the browser only when the number of
\* products extracted in the category is a multiple of 20, so the first
\* replacement comes after the 20th product.
C17_RefreshAfterEvery20 ==
  [][(pc = "refresh" /\ pc' \in {"ext_get", "export"} /\ browser' # browser)
       => (i + 1) % RefreshEvery = 0]_vars


\* C18: while the review page shown has a next-page control, the step at
\* that control always leads to the extraction of a page again, also when
\* the click on the control is intercepted: pagination does not end there.
C18_InterceptedClickFallsBack ==
  [][(/\ pc = "ext_next" /\ browser \in live /\ page < threads[Url]
      /\ live' = live /\ pc' # "crashed")
       => pc' = "ext_page"]_vars


\* C19: an exception caught by the handler of run_scraper leads, through the
\* handler and the sleep, to a new scraper object only; the run that follows
\* starts at the first category with an empty buffer and no links, whatever
\* the category of the failure was, and categories are always taken one
\* after the other from the first, so the categories exported before the
\* failure are scraped and exported again.
C19_RestartFromFirstCategory ==
  /\ [][(pc = "except") => pc' \in {"except", "backoff", "crashed"}]_vars
  /\ [][(pc = "backoff") => pc' \in {"backoff", "construct", "crashed"}]_vars
  /\ [][(pc = "construct" /\ pc' = "home")
          => (cat' = 1 /\ results' = <<>> /\ links' = <<>> /\ i' = 0)]_vars
  /\ [](pc = "home" => (cat = 1 /\ results = <<>>))
  /\ [][(pc' = "cat_get" /\ pc # "cat_get")
          => \/ pc = "home" /\ cat' = 1
             \/ pc \in {"export", "export_write"} /\ cat' = cat + 1]_vars
  /\ [][(pc \notin {"construct", "cat_get"} /\ pc' \notin {"cat_get", "crashed"})
          => cat' = cat]_vars

\* the run after a restart is writing the file of the first category, which
\* the run before it had already written completely
C19_Witness ==
  /\ restarts = 1 /\ pc = "export_write" /\ cat = 1
  /\ committed[1].exists /\ Len(results) > 0


\* C20: shutdown returns normally whatever state the browser is in: the
\* step that runs it ends the run and hands no exception to the handler of
\* run_scraper.
C20_ShutdownNeverRaises ==
  [][(pc = "shutdown" /\ pc' \notin {"shutdown", "crashed"})
       => (pc' = "done" /\ exc' = exc)]_vars


\* C21: when the guarded navigation to a category page has returned and
\* discover_products is about to start on a running browser, that browser
\* shows the category listing, also when the navigation was retried on a
\* browser created by the guard.
C21_RetryUsesNewBrowser ==
  (pc = "discover" /\ ret # "pending" /\ browser \in live) => shown = "listing"


\* C22: when the only failure of the run is one session loss inside a call
\* of extract_reviews and the guard's second run of the extraction has
\* completed, the records the call has appended hold no review twice.
C22_RetryAppendsOnce ==
  (/\ pc = "refresh" /\ ret = "result" /\ runs = 2
   /\ oploss = 1 /\ faults = 1 /\ restarts = 0)
    => \A a, b \in 1..Len(Appended) : Appended[a] = Appended[b] => a = b


TypeOK ==
  /\ pc \in {"construct", "home", "cat_get", "discover", "ext_get",
             "ext_seeall", "ext_page", "ext_next", "refresh", "export",
             "export_write", "shutdown", "done", "except", "backoff",
             "crashed"}
  /\ restarts \in 0..MaxRestarts
  /\ faults \in 0..MaxFaults
  /\ browser \in {0} \cup SessionIds
  /\ live \subseteq SessionIds
  /\ attempt \in 0..2
  /\ cat \in Categories
  /\ i \in 0..MaxProducts

====
